---------------------------- MODULE Spec2Model ----------------------------
(***************************************************************************)
(* A model of the API client core of ghes_migration_tools:                 *)
(*   - GitHubAPIHandler (src/github/github_api_handler.py): URL            *)
(*     normalisation, endpoint resolution, identity check at construction, *)
(*     REST and GraphQL requests;                                          *)
(*   - fetch_all_users (src/users_dump_slack.py): the cursor-paginated,    *)
(*     rate-limit-absorbing generator, alone and as two interleaved        *)
(*     streams, and the loop of main that filters, writes and counts the   *)
(*     users it yields;                                                    *)
(*   - load_and_normalize and map_and_output                               *)
(*     (src/users_map_saml_users_no_api.py): the left join of the SAML     *)
(*     export with the users export on the normalised login.               *)
(* Python strings that the code inspects character by character (URLs,     *)
(* the Retry-After header) are sequences of one-character strings.         *)
(* Python's None is the string "None"; no other value of the model is      *)
(* spelled that way.                                                       *)
(***************************************************************************)
EXTENDS Integers, Sequences, FiniteSets, TLC

PyNone == "None"

(***************************************************************************)
(* Bounds of the model.                                                    *)
(***************************************************************************)
\* trailing slashes appended to a host input: 0..MaxSlashes
MaxSlashes == 2
\* pages the simulated Slack service holds
MaxPages == 2
\* members on one page: 0..MaxPageSize
MaxPageSize == 2
\* 'ratelimited' failures the service may place in one run
MaxRateLimits == 2
\* distinct user objects; members repeat once a listing is longer
NumUsers == 2

(***************************************************************************)
(* Strings as character sequences.                                         *)
(***************************************************************************)
LowerLetters ==
    <<"a","b","c","d","e","f","g","h","i","j","k","l","m",
      "n","o","p","q","r","s","t","u","v","w","x","y","z">>

UpperLetters ==
    <<"A","B","C","D","E","F","G","H","I","J","K","L","M",
      "N","O","P","Q","R","S","T","U","V","W","X","Y","Z">>

Digits == <<"0","1","2","3","4","5","6","7","8","9">>

Range(s) == {s[i] : i \in DOMAIN s}

\* the characters of the strings of the model
Char ==
    Range(LowerLetters) \cup Range(UpperLetters) \cup Range(Digits)
    \cup {":", "/", ".", "@", "?", "#", "+", "-", " "}

Str == Seq(Char)

\* str.isalpha() on one ASCII character
IsAlpha(c) == c \in Range(LowerLetters) \cup Range(UpperLetters)

\* urllib.parse.scheme_chars: letters, digits and "+-."
IsSchemeChar(c) == IsAlpha(c) \/ c \in Range(Digits) \/ c \in {"+", "-", "."}

\* str.lower() on one character
LowerChar[c \in Char] ==
    IF c \in Range(UpperLetters)
    THEN LowerLetters[CHOOSE i \in DOMAIN UpperLetters : UpperLetters[i] = c]
    ELSE c

\* str.lower()
Lower[s \in Str] == [i \in DOMAIN s |-> LowerChar[s[i]]]

\* str.startswith(p)
StartsWith[s \in Str, p \in Str] == Len(s) >= Len(p) /\ SubSeq(s, 1, Len(p)) = p

\* str.rstrip(c) for a single character c
RStrip[s \in Str, c \in Char] ==
    IF s # <<>> /\ s[Len(s)] = c THEN RStrip[SubSeq(s, 1, Len(s) - 1), c] ELSE s

\* str.find(c): the first index of c (1-based), 0 when absent
Find[s \in Str, c \in Char] ==
    IF c \in Range(s) THEN CHOOSE i \in DOMAIN s : s[i] = c /\ \A j \in 1..(i-1) : s[j] # c
    ELSE 0

\* str.rfind(c): the last index of c (1-based), 0 when absent
RFind[s \in Str, c \in Char] ==
    IF c \in Range(s)
    THEN CHOOSE i \in DOMAIN s : s[i] = c /\ \A j \in (i+1)..Len(s) : s[j] # c
    ELSE 0

\* str.strip(), for the one whitespace character of the model
Strip[s \in Str] ==
    IF s # <<>> /\ s[1] = " " THEN Strip[Tail(s)]
    ELSE IF s # <<>> /\ s[Len(s)] = " " THEN Strip[SubSeq(s, 1, Len(s) - 1)]
    ELSE s

\* s[i:] with a 1-based first index
From[s \in Str, i \in Nat] == SubSeq(s, i, Len(s))

HTTP == <<"h","t","t","p",":","/","/">>
HTTPS == <<"h","t","t","p","s",":","/","/">>
GITHUB_COM == <<"g","i","t","h","u","b",".","c","o","m">>
API_GITHUB_COM == HTTPS \o <<"a","p","i",".">> \o GITHUB_COM
API_V3 == <<"/","a","p","i","/","v","3">>
API_GRAPHQL == <<"/","a","p","i","/","g","r","a","p","h","q","l">>
GRAPHQL == <<"/","g","r","a","p","h","q","l">>
USER == <<"/","u","s","e","r">>

(***************************************************************************)
(* Outcomes of a call: a returned value or a raised exception.             *)
(***************************************************************************)
Return(v) == [kind |-> "return", value |-> v]
Raise(e) == [kind |-> "raise", error |-> e]
\* an exception built from a message prefix and the exception it wraps
RaiseFrom(e, prefix, cause) ==
    [kind |-> "raise", error |-> e, message |-> [prefix |-> prefix, cause |-> cause]]

\* a Python dict is a function from its keys; {} is the empty function
EmptyDict == [k \in {} |-> PyNone]

\* dict.get(k, dflt)
Get(d, k, dflt) == IF k \in DOMAIN d THEN d[k] ELSE dflt

\* Python truthiness of a str-or-None value
Truthy(v) == v \notin {PyNone, ""}

(***************************************************************************)
(* GitHubAPIHandler: URL normalisation and endpoint resolution.            *)
(***************************************************************************)
\* GitHubAPIHandler._normalize_url
_normalize_url(url) ==
    LET u == IF ~(StartsWith[url, HTTP] \/ StartsWith[url, HTTPS])
             THEN HTTPS \o url
             ELSE url
    IN  RStrip[u, "/"]

\* urlsplit: the text after a valid "scheme:" prefix, or the whole text
AfterScheme[url \in Str] ==
    LET i == Find[url, ":"]
    IN  IF i > 1 /\ IsAlpha(url[1]) /\ \A j \in 1..(i-1) : IsSchemeChar(url[j])
        THEN From[url, i + 1]
        ELSE url

\* the netloc of a text that starts with "//": up to the first "/", "?" or "#"
SplitNetloc[rest \in Str] ==
    LET stops == {i \in 3..Len(rest) : rest[i] \in {"/", "?", "#"}}
        delim == IF stops = {} THEN Len(rest) + 1
                 ELSE CHOOSE i \in stops : \A j \in stops : i <= j
    IN  SubSeq(rest, 3, delim - 1)

\* urlsplit(url).netloc
Netloc[url \in Str] ==
    IF StartsWith[AfterScheme[url], <<"/","/">>] THEN SplitNetloc[AfterScheme[url]]
    ELSE <<>>

\* the host part of a netloc: without userinfo and without port
HostInfo[netloc \in Str] ==
    LET hostinfo == From[netloc, RFind[netloc, "@"] + 1]
    IN  IF Find[hostinfo, ":"] = 0 THEN hostinfo
        ELSE SubSeq(hostinfo, 1, Find[hostinfo, ":"] - 1)

\* urlparse(url).hostname: the netloc without userinfo and port, lower-cased;
\* the empty sequence stands for None (hostname returns None when it is empty).
\* IPv6 brackets and "%" zones are outside the alphabet of the inputs.
Hostname[url \in Str] == Lower[HostInfo[Netloc[url]]]

\* _determine_api_url with the test made on the whole base URL, not the hostname
_determine_api_url_whole_url(base) ==
    IF Hostname[base] = <<>> THEN Raise("AttributeError")
    ELSE IF base = HTTPS \o GITHUB_COM THEN Return(API_GITHUB_COM)
    ELSE Return(base \o API_V3)

\* GitHubAPIHandler._determine_api_url, as a function of self.base_url
_determine_api_url(base) ==
    LET hostname == Hostname[base]
    IN  IF hostname = <<>> THEN Raise("AttributeError")   \* None.lower()
        ELSE IF Lower[hostname] = GITHUB_COM THEN Return(API_GITHUB_COM)
        ELSE Return(base \o API_V3)

\* GitHubAPIHandler._determine_graphql_url, as a function of self.base_url
_determine_graphql_url(base) ==
    LET hostname == Hostname[base]
    IN  IF hostname = <<>> THEN Raise("AttributeError")   \* None.lower()
        ELSE IF Lower[hostname] = GITHUB_COM THEN Return(API_GITHUB_COM \o GRAPHQL)
        ELSE Return(base \o API_GRAPHQL)

(***************************************************************************)
(* The HTTP replies the simulated GitHub service gives.  A reply is a      *)
(* transport failure or a status with a raw body; response.json() decodes  *)
(* the body or fails.                                                      *)
(***************************************************************************)
NetFail == [net |-> "ConnectionError"]
Reply(s, c) == [status |-> s, content |-> c]

BODY_LOGIN == "{\"login\":\"octocat\"}"
BODY_LOGIN_EMPTY == "{\"login\":\"\"}"
BODY_LOGIN_NULL == "{\"login\":null}"
BODY_OBJECT == "{}"
BODY_ID == "{\"id\":\"r1\"}"
BODY_MESSAGE == "{\"message\":\"Bad credentials\"}"
BODY_HTML == "<html>"
BODY_DATA == "{\"data\":{\"viewer\":\"octocat\"}}"
BODY_ERRORS == "{\"errors\":[{\"message\":\"boom\"}]}"
BODY_ERRORS_DATA == "{\"errors\":[{\"message\":\"boom\"}],\"data\":{\"viewer\":\"octocat\"}}"
BODY_NO_ERRORS_DATA == "{\"errors\":[],\"data\":{\"viewer\":\"octocat\"}}"

\* response.json(): the decoded document, or JSONDecodeError for a body that
\* is empty or is not JSON
ResponseJson(content) ==
    CASE content = BODY_LOGIN -> Return([login |-> "octocat"])
      [] content = BODY_LOGIN_EMPTY -> Return([login |-> ""])
      [] content = BODY_LOGIN_NULL -> Return([login |-> PyNone])
      [] content = BODY_OBJECT -> Return(EmptyDict)
      [] content = BODY_ID -> Return([id |-> "r1"])
      [] content = BODY_MESSAGE -> Return([message |-> "Bad credentials"])
      [] content = BODY_DATA -> Return([data |-> [viewer |-> "octocat"]])
      [] content = BODY_ERRORS -> Return([errors |-> <<[message |-> "boom"]>>])
      [] content = BODY_ERRORS_DATA ->
            Return([errors |-> <<[message |-> "boom"]>>, data |-> [viewer |-> "octocat"]])
      [] content = BODY_NO_ERRORS_DATA ->
            Return([errors |-> <<>>, data |-> [viewer |-> "octocat"]])
      [] OTHER -> Raise("JSONDecodeError")

\* response.raise_for_status(): HTTPError for a 4xx or 5xx status
RaiseForStatus(status) == status >= 400 /\ status < 600

\* the exception a failed reply raises inside the try block: the transport's
\* exception, or raise_for_status()'s HTTPError
ReplyException(reply) ==
    IF "net" \in DOMAIN reply THEN [exc |-> reply.net]
    ELSE [exc |-> "HTTPError", status |-> reply.status]

\* a reply that raises a requests.exceptions.RequestException before decoding
ReplyFails(reply) == "net" \in DOMAIN reply \/ RaiseForStatus(reply.status)

IdentityReplies ==
    {NetFail, Reply(401, BODY_MESSAGE), Reply(500, "")}
    \cup {Reply(200, c) : c \in {BODY_LOGIN, BODY_LOGIN_EMPTY, BODY_LOGIN_NULL,
                                 BODY_OBJECT, BODY_HTML, ""}}

RestReplies ==
    {NetFail, Reply(404, BODY_MESSAGE), Reply(500, ""), Reply(204, ""), Reply(304, "")}
    \cup {Reply(200, c) : c \in {BODY_ID, BODY_OBJECT, BODY_HTML, ""}}

GraphqlReplies ==
    {NetFail, Reply(401, BODY_MESSAGE), Reply(502, BODY_HTML)}
    \cup {Reply(200, c) : c \in {BODY_DATA, BODY_ERRORS, BODY_ERRORS_DATA,
                                 BODY_NO_ERRORS_DATA, BODY_OBJECT, BODY_HTML}}

(***************************************************************************)
(* Host strings given to the constructor: a scheme spelling, a host part   *)
(* and 0..MaxSlashes trailing slashes.                                     *)
(***************************************************************************)
Slashes(k) == [i \in 1..k |-> "/"]

SchemeInputs == {<<>>, HTTP, HTTPS, <<"H","T","T","P",":","/","/">>}

HostInputs ==
    { <<>>,
      GITHUB_COM,
      <<"G","i","t","H","u","b",".","c","o","m">>,
      GITHUB_COM \o <<":","8">>,
      GITHUB_COM \o <<"/","x">>,
      <<"g","h","e",".","i","o">>,
      <<"u","@","g","h","e",".","i","o">>,
      <<"x",".">> \o GITHUB_COM }

BaseUrlInputs ==
    {s \o h \o Slashes(k) : s \in SchemeInputs, h \in HostInputs, k \in 0..MaxSlashes}

Tokens == {"ghp_a", "ghp_b"}

Endpoints == {<<"/","r","e","p","o","s">>}

(***************************************************************************)
(* State.                                                                  *)
(***************************************************************************)
VARIABLES
    base_in,    \* the base_url argument of GitHubAPIHandler(base_url, token)
    token_in,   \* the token argument
    hstate,     \* "new": not constructed; "ready": __init__ returned;
                \* "failed": __init__ raised, no handler object exists
    self,       \* the attributes __init__ has assigned
    ctor,       \* the outcome of __init__
    identity,   \* the GET <api_url>/user sent by __init__ with its reply, if sent
    last        \* the latest call on the handler: request, reply, outcome

hvars == <<base_in, token_in, hstate, self, ctor, identity, last>>

VARIABLES
    listing,     \* the simulated Slack service: its pages, in cursor order
    rl_left,     \* 'ratelimited' failures the service may still answer with
    batch_size,  \* the batch_size argument of fetch_all_users
    pc,          \* where the generator stands: "created", "call" (line 85),
                 \* "loop" (line 88), "suspended" (at the yield of line 89),
                 \* "sleep" (line 97), "done" (returned), "raised"
    cursor,      \* the local variable cursor
    resp,        \* the local variable resp
    idx,         \* the position of the for loop of line 88 in resp["members"]
    delay,       \* the local variable delay
    err,         \* the exception that left the generator, once pc = "raised"
    yielded,     \* the members yielded so far, in order
    calls        \* the users_list and time.sleep calls made so far, in order

fvars == <<listing, rl_left, batch_size, pc, cursor, resp, idx, delay, err,
           yielded, calls>>

VARIABLES
    stream,      \* the stream that runs (1 or 2): its generator's frame and its
                 \* service are the variables above
    other        \* the frame and the service of the stream that does not run

svars == <<stream, other>>

VARIABLES
    saml_csv,          \* the rows of the SAML CSV, as read
    users_csv,         \* the rows of the users CSV, as read
    rpc,               \* "start", "loaded" (load_and_normalize returned),
                       \* "done" (map_and_output returned)
    saml_df,           \* load_and_normalize's saml_df
    users_df,          \* load_and_normalize's users_df
    merged,            \* map_and_output's merged
    unmatched_saml,    \* map_and_output's unmatched_saml
    unmatched_github,  \* map_and_output's unmatched_github
    files              \* the output files written, by the suffix of their name

rvars == <<saml_csv, users_csv, rpc, saml_df, users_df, merged, unmatched_saml,
           unmatched_github, files>>

VARIABLES
    include_bots,     \* args.include_bots
    include_deleted,  \* args.include_deleted
    mpc,              \* "loop": in the for loop of line 140; "done": reported
    users,            \* the users fetch_all_users has yielded to main so far
    rows,             \* the rows written by writer.writerow, in order
    active,           \* main's counters
    deactivated,
    bot,
    app,
    report            \* what line 170 logs

mvars == <<include_bots, include_deleted, mpc, users, rows, active, deactivated,
           bot, app, report>>

\* the variables of the two scripts that are not the handler's or the generator's
ovars == <<rvars, mvars>>

vars == <<hvars, fvars, svars, ovars>>

NoCall == [op |-> "none"]

\* REST headers that carry no credential
RestHeadersAnonymous(token) == [Accept |-> "application/vnd.github.v3+json"]

\* the headers of __init__
RestHeaders(token) ==
    [Authorization |-> <<"Bearer", token>>, Accept |-> "application/vnd.github.v3+json"]

GraphqlHeaders(token) ==
    [Authorization |-> <<"Bearer", token>>, Accept |-> "application/vnd.github+json"]

\* the object before __init__ has assigned anything
Unassigned ==
    [base_url |-> <<>>, token |-> PyNone, api_url |-> <<>>, graphql_url |-> <<>>,
     headers |-> EmptyDict, graphql_headers |-> EmptyDict, username |-> PyNone]

(***************************************************************************)
(* GitHubAPIHandler: the three calls that reach the network.  jsonIsReqExc *)
(* is what the installed requests does with an undecodable body: since     *)
(* 2.27 its JSONDecodeError is a RequestException (and is caught and       *)
(* wrapped), before it was a plain ValueError (and propagates as it is).   *)
(***************************************************************************)
\* _get_authenticated_user without the test of the login it read
_get_authenticated_user_unchecked(reply, jsonIsReqExc) ==
    IF ReplyFails(reply)
    THEN RaiseFrom("RequestException", "Failed to fetch user data", ReplyException(reply))
    ELSE LET user_data == ResponseJson(reply.content)
         IN  IF user_data.kind = "raise"
             THEN Raise("JSONDecodeError")
             ELSE Return(Get(user_data.value, "login", PyNone))

\* _get_authenticated_user that reports a missing login as a request failure
_get_authenticated_user_one_kind(reply, jsonIsReqExc) ==
    IF ReplyFails(reply)
    THEN RaiseFrom("RequestException", "Failed to fetch user data", ReplyException(reply))
    ELSE LET user_data == ResponseJson(reply.content)
         IN  IF user_data.kind = "raise"
             THEN Raise("JSONDecodeError")
             ELSE LET username == Get(user_data.value, "login", PyNone)
                  IN  IF ~Truthy(username)
                      THEN RaiseFrom("RequestException", "Failed to fetch user data",
                                     [exc |-> "ValueError"])
                      ELSE Return(username)

\* GitHubAPIHandler._get_authenticated_user
_get_authenticated_user(reply, jsonIsReqExc) ==
    IF ReplyFails(reply)
    THEN RaiseFrom("RequestException", "Failed to fetch user data", ReplyException(reply))
    ELSE LET user_data == ResponseJson(reply.content)
         IN  IF user_data.kind = "raise"
             THEN IF jsonIsReqExc
                  THEN RaiseFrom("RequestException", "Failed to fetch user data",
                                 [exc |-> "JSONDecodeError"])
                  ELSE Raise("JSONDecodeError")
             ELSE LET username == Get(user_data.value, "login", PyNone)
                  IN  IF ~Truthy(username) THEN Raise("ValueError")
                      ELSE Return(username)

\* make_api_request without response.raise_for_status()
make_api_request_any_status(reply, jsonIsReqExc) ==
    IF "net" \in DOMAIN reply
    THEN RaiseFrom("RequestException", "REST API request failed", ReplyException(reply))
    ELSE IF reply.content = "" THEN Return(EmptyDict)
    ELSE LET body == ResponseJson(reply.content)
         IN  IF body.kind = "return" THEN Return(body.value)
             ELSE Raise("JSONDecodeError")

\* GitHubAPIHandler.make_api_request, from the reply to its request
make_api_request(reply, jsonIsReqExc) ==
    IF ReplyFails(reply)
    THEN RaiseFrom("RequestException", "REST API request failed", ReplyException(reply))
    ELSE IF reply.content = "" THEN Return(EmptyDict)
    ELSE LET body == ResponseJson(reply.content)
         IN  IF body.kind = "return" THEN Return(body.value)
             ELSE IF jsonIsReqExc
             THEN RaiseFrom("RequestException", "REST API request failed",
                            [exc |-> "JSONDecodeError"])
             ELSE Raise("JSONDecodeError")

\* make_graphql_request that looks at 'errors' only when there is no 'data'
make_graphql_request_data_first(reply, jsonIsReqExc) ==
    IF ReplyFails(reply)
    THEN RaiseFrom("RequestException", "GraphQL API request failed", ReplyException(reply))
    ELSE LET result == ResponseJson(reply.content)
         IN  IF result.kind = "raise" THEN Raise("JSONDecodeError")
             ELSE IF "data" \in DOMAIN result.value THEN Return(result.value["data"])
             ELSE IF "errors" \in DOMAIN result.value
             THEN RaiseFrom("ValueError", "GraphQL query failed", result.value["errors"])
             ELSE Return(EmptyDict)

\* GitHubAPIHandler.make_graphql_request, from the reply to its request
make_graphql_request(reply, jsonIsReqExc) ==
    IF ReplyFails(reply)
    THEN RaiseFrom("RequestException", "GraphQL API request failed", ReplyException(reply))
    ELSE LET result == ResponseJson(reply.content)
         IN  IF result.kind = "raise"
             THEN IF jsonIsReqExc
                  THEN RaiseFrom("RequestException", "GraphQL API request failed",
                                 [exc |-> "JSONDecodeError"])
                  ELSE Raise("JSONDecodeError")
             ELSE IF "errors" \in DOMAIN result.value
             THEN RaiseFrom("ValueError", "GraphQL query failed", result.value["errors"])
             ELSE Return(Get(result.value, "data", EmptyDict))

(***************************************************************************)
(* Actions of the handler.                                                 *)
(***************************************************************************)
\* __init__'s first assignments (base_url, api_url, graphql_url) for every host
\* string of the model, computed once
InitUrls ==
    [url \in BaseUrlInputs |->
        LET base == _normalize_url(url)
        IN  [base_url |-> base,
             api_url |-> _determine_api_url(base),
             graphql_url |-> _determine_graphql_url(base)]]

\* GitHubAPIHandler.__init__(base_in, token_in)
Construct ==
    /\ hstate = "new"
    /\ \E reply \in IdentityReplies, jsonIsReqExc \in BOOLEAN :
        LET base == InitUrls[base_in].base_url
            s1 == [Unassigned EXCEPT !.base_url = base, !.token = token_in]
            api == InitUrls[base_in].api_url
            gql == InitUrls[base_in].graphql_url
        IN  IF api.kind = "raise"
            THEN /\ self' = s1
                 /\ ctor' = api
                 /\ hstate' = "failed"
                 /\ UNCHANGED identity
            ELSE IF gql.kind = "raise"
            THEN /\ self' = [s1 EXCEPT !.api_url = api.value]
                 /\ ctor' = gql
                 /\ hstate' = "failed"
                 /\ UNCHANGED identity
            ELSE LET s2 == [s1 EXCEPT !.api_url = api.value,
                                      !.graphql_url = gql.value,
                                      !.headers = RestHeaders(token_in),
                                      !.graphql_headers = GraphqlHeaders(token_in)]
                     user == _get_authenticated_user(reply, jsonIsReqExc)
                 IN  /\ identity' = [op |-> "GET", url |-> s2.api_url \o USER,
                                     headers |-> s2.headers, reply |-> reply]
                     /\ IF user.kind = "return"
                        THEN /\ self' = [s2 EXCEPT !.username = user.value]
                             /\ ctor' = Return("handler")
                             /\ hstate' = "ready"
                        ELSE /\ self' = s2
                             /\ ctor' = user
                             /\ hstate' = "failed"
    /\ UNCHANGED <<base_in, token_in, last>>
    /\ UNCHANGED fvars
    /\ UNCHANGED svars
    /\ UNCHANGED ovars

\* handler.make_api_request(endpoint, method)
MakeApiRequest ==
    /\ hstate = "ready"
    /\ \E endpoint \in Endpoints, method \in {"GET", "POST"},
          reply \in RestReplies, jsonIsReqExc \in BOOLEAN :
        last' = [op |-> "make_api_request", method |-> method,
                 url |-> self.api_url \o endpoint, headers |-> self.headers,
                 reply |-> reply, outcome |-> make_api_request(reply, jsonIsReqExc)]
    /\ UNCHANGED <<base_in, token_in, hstate, self, ctor, identity>>
    /\ UNCHANGED fvars
    /\ UNCHANGED svars
    /\ UNCHANGED ovars

\* handler.make_graphql_request(query)
MakeGraphqlRequest ==
    /\ hstate = "ready"
    /\ \E reply \in GraphqlReplies, jsonIsReqExc \in BOOLEAN :
        last' = [op |-> "make_graphql_request", method |-> "POST",
                 url |-> self.graphql_url, headers |-> self.graphql_headers,
                 reply |-> reply, outcome |-> make_graphql_request(reply, jsonIsReqExc)]
    /\ UNCHANGED <<base_in, token_in, hstate, self, ctor, identity>>
    /\ UNCHANGED fvars
    /\ UNCHANGED svars
    /\ UNCHANGED ovars

\* handler.get_username()
GetUsername ==
    /\ hstate = "ready"
    /\ last' = [op |-> "get_username", outcome |-> Return(self.username)]
    /\ UNCHANGED <<base_in, token_in, hstate, self, ctor, identity>>
    /\ UNCHANGED fvars
    /\ UNCHANGED svars
    /\ UNCHANGED ovars


(***************************************************************************)
(* The simulated Slack service of fetch_all_users.  Page p of a listing is *)
(* asked for with the cursor that page p-1 returned (no cursor for page    *)
(* 1); the last page ends the listing in one of four shapes.               *)
(***************************************************************************)
DEFAULT_BATCH_SIZE == 200
\* the default of e.response.headers.get("Retry-After", 1)
RETRY_AFTER_DEFAULT == 1

CursorTokens == <<"dXNlcjox", "dXNlcjoy", "dXNlcjoz", "dXNlcjo0", "dXNlcjo1",
                  "dXNlcjo2", "dXNlcjo3", "dXNlcjo4">>

\* how a response says that its page is the last one
FinalShapes == {"empty_cursor", "null_cursor", "no_cursor_key", "no_metadata"}

\* members before page p of a listing with the page sizes sz
Offset[sz \in Seq(Nat), p \in Nat] ==
    IF p <= 1 THEN 0 ELSE Offset[sz, p - 1] + sz[p - 1]

\* the user objects of page p: users repeat once a listing outgrows NumUsers
PageMembers(sz, p) ==
    [i \in 1..sz[p] |-> [id |-> ((Offset[sz, p] + i - 1) % NumUsers) + 1]]

\* the listings of the model: 1..MaxPages pages of 0..MaxPageSize members each
Listings ==
    UNION {{[p \in 1..n |-> PageMembers(sz, p)] : sz \in [1..n -> 0..MaxPageSize]} :
           n \in 1..MaxPages}

\* the response for page p of the listing l; the last page ends it in shape
ServicePage(l, p, shape) ==
    CASE shape = "next_cursor" ->
            [members |-> l[p], response_metadata |-> [next_cursor |-> CursorTokens[p + 1]]]
      [] shape = "empty_cursor" ->
            [members |-> l[p], response_metadata |-> [next_cursor |-> ""]]
      [] shape = "null_cursor" ->
            [members |-> l[p], response_metadata |-> [next_cursor |-> PyNone]]
      [] shape = "no_cursor_key" ->
            [members |-> l[p], response_metadata |-> EmptyDict]
      [] shape = "no_metadata" ->
            [members |-> l[p]]

\* the page a cursor asks for: the service starts from the first page when it
\* is given no cursor or an empty one
PageOf(c) ==
    IF c \in Range(CursorTokens)
    THEN CHOOSE p \in DOMAIN CursorTokens : CursorTokens[p] = c
    ELSE 1

\* the batch_size arguments of the model: the default of --batch-size and one
\* that is just as large as the largest page
BatchSizes == {DEFAULT_BATCH_SIZE, MaxPageSize}

\* the Retry-After header of a rate-limit failure: absent, seconds, or other text
RetryAfterHeaders ==
    {EmptyDict, "Retry-After" :> <<"3","0">>, "Retry-After" :> <<"s","o","o","n">>}

\* what the service may answer to a users_list call for page p of the listing l
Answers(l, p) ==
    {[kind |-> "ok", shape |-> sh] :
        sh \in IF p < Len(l) THEN {"next_cursor"} ELSE FinalShapes}
    \cup {[kind |-> "malformed"],
          [kind |-> "SlackApiError", error |-> "invalid_auth", headers |-> EmptyDict],
          [kind |-> "Exception", error |-> "URLError"]}
    \cup {[kind |-> "SlackApiError", error |-> "ratelimited", headers |-> h] :
            h \in RetryAfterHeaders}

(***************************************************************************)
(* fetch_all_users.                                                        *)
(***************************************************************************)
\* the value of a string of decimal digits
DigitsValue[s \in Str] ==
    IF s = <<>> THEN 0
    ELSE 10 * DigitsValue[SubSeq(s, 1, Len(s) - 1)]
         + (CHOOSE d \in DOMAIN Digits : Digits[d] = s[Len(s)]) - 1

\* int(s) for a str over the model's characters: the value of a non-empty
\* string of digits, with an optional sign before it; ValueError otherwise
PyInt(s) ==
    LET signed == s # <<>> /\ s[1] \in {"+", "-"}
        digits == IF signed THEN Tail(s) ELSE s
    IN  IF digits # <<>> /\ \A i \in DOMAIN digits : digits[i] \in Range(Digits)
        THEN Return(IF signed /\ s[1] = "-" THEN 0 - DigitsValue[digits]
                    ELSE DigitsValue[digits])
        ELSE Raise("ValueError")

\* the delay taken without reading the Retry-After header
RetryDelayDefaultOnly(headers) == Return(RETRY_AFTER_DEFAULT)

\* the delay with no wait at all when the header is absent
RetryDelayZeroDefault(headers) ==
    IF "Retry-After" \in DOMAIN headers THEN PyInt(headers["Retry-After"])
    ELSE Return(0)

\* line 95: int(e.response.headers.get("Retry-After", 1))
RetryDelay(headers) ==
    IF "Retry-After" \in DOMAIN headers THEN PyInt(headers["Retry-After"])
    ELSE Return(RETRY_AFTER_DEFAULT)

\* the next cursor looked up on the response itself, not in its metadata
NextCursorTopLevel(r) == Get(r, "next_cursor", PyNone)

\* a lookup that falls back to the first cursor when the response names none
NextCursorDefaultFirst(r) ==
    Get(Get(r, "response_metadata", [next_cursor |-> CursorTokens[1]]),
        "next_cursor", CursorTokens[1])

\* line 90: resp.get("response_metadata", {}).get("next_cursor")
NextCursor(r) == Get(Get(r, "response_metadata", EmptyDict), "next_cursor", PyNone)

\* no SlackApiError taken for a rate limit: the first failure ends the run
IsRateLimitedNever(ans) == FALSE

\* every SlackApiError taken for a rate limit
IsRateLimitedAnyError(ans) == ans.kind = "SlackApiError"

\* line 94: e.response["error"] == "ratelimited", for a SlackApiError e
IsRateLimited(ans) == ans.kind = "SlackApiError" /\ ans.error = "ratelimited"

\* a request that asks for the default batch size whatever batch_size is
UsersListRequestDefaultLimit(limit, c) ==
    [op |-> "users_list", limit |-> DEFAULT_BATCH_SIZE, cursor |-> c]

\* line 85: client.users_list(limit=batch_size, cursor=cursor)
UsersListRequest(limit, c) == [op |-> "users_list", limit |-> limit, cursor |-> c]

\* a for loop that leaves the page one member early
PageExhaustedEarly(r, i) == i >= Len(r["members"])

\* line 88: the for loop has passed every member of resp["members"]
PageExhausted(r, i) == i > Len(r["members"])

\* the first next() on the generator: line 82
FetchStart ==
    /\ pc = "created"
    /\ cursor' = PyNone
    /\ pc' = "call"
    /\ UNCHANGED <<listing, rl_left, batch_size, resp, idx, delay, err, yielded, calls>>
    /\ UNCHANGED hvars
    /\ UNCHANGED svars
    /\ UNCHANGED ovars

\* lines 85-86 and the except clauses of lines 93-103: one users_list call
UsersList ==
    /\ pc = "call"
    /\ \E ans \in Answers(listing, PageOf(cursor)) :
        LET request == UsersListRequest(batch_size, cursor)
        IN  CASE ans.kind = "ok" ->
                    /\ resp' = ServicePage(listing, PageOf(cursor), ans.shape)
                    /\ idx' = 1
                    /\ pc' = "loop"
                    /\ calls' = Append(calls, request @@
                          [result |-> "ok",
                           response |-> ServicePage(listing, PageOf(cursor), ans.shape)])
                    /\ UNCHANGED <<rl_left, delay, err>>
              [] ans.kind = "malformed" ->
                    \* resp["members"] is None: len(None) raises at line 86
                    /\ resp' = [ok |-> TRUE]
                    /\ pc' = "raised"
                    /\ err' = "TypeError"
                    /\ calls' = Append(calls, request @@ [result |-> "malformed"])
                    /\ UNCHANGED <<rl_left, idx, delay>>
              [] ans.kind = "Exception" ->
                    /\ pc' = "raised"
                    /\ err' = ans.error
                    /\ calls' = Append(calls, request @@ [result |-> ans.error])
                    /\ UNCHANGED <<rl_left, resp, idx, delay>>
              [] ans.kind = "SlackApiError" /\ ~IsRateLimited(ans) ->
                    /\ pc' = "raised"
                    /\ err' = "SlackApiError"
                    /\ calls' = Append(calls, request @@ [result |-> ans.error,
                                                          headers |-> ans.headers])
                    /\ UNCHANGED <<rl_left, resp, idx, delay>>
              [] ans.kind = "SlackApiError" /\ IsRateLimited(ans) ->
                    /\ rl_left > 0
                    /\ rl_left' = rl_left - 1
                    /\ calls' = Append(calls, request @@ [result |-> ans.error,
                                                          headers |-> ans.headers])
                    /\ IF RetryDelay(ans.headers).kind = "return"
                       THEN /\ delay' = RetryDelay(ans.headers).value
                            /\ pc' = "sleep"
                            /\ UNCHANGED err
                       ELSE /\ pc' = "raised"
                            /\ err' = RetryDelay(ans.headers).error
                            /\ UNCHANGED delay
                    /\ UNCHANGED <<resp, idx>>
    /\ UNCHANGED <<listing, batch_size, cursor, yielded>>
    /\ UNCHANGED hvars
    /\ UNCHANGED svars
    /\ UNCHANGED ovars

\* line 97: time.sleep(delay), then continue
Sleep ==
    /\ pc = "sleep"
    /\ calls' = Append(calls, [op |-> "sleep", secs |-> delay])
    /\ pc' = "call"
    /\ UNCHANGED <<listing, rl_left, batch_size, cursor, resp, idx, delay, err, yielded>>
    /\ UNCHANGED hvars
    /\ UNCHANGED svars
    /\ UNCHANGED ovars

\* lines 88-89: the for loop yields the next member and the generator suspends
YieldMember ==
    /\ pc = "loop"
    /\ ~PageExhausted(resp, idx)
    /\ yielded' = Append(yielded, resp["members"][idx])
    /\ pc' = "suspended"
    /\ UNCHANGED <<listing, rl_left, batch_size, cursor, resp, idx, delay, err, calls>>
    /\ UNCHANGED hvars
    /\ UNCHANGED svars
    /\ UNCHANGED ovars

\* the consumer's next() after a yield: the for loop moves on
Resume ==
    /\ pc = "suspended"
    /\ idx' = idx + 1
    /\ pc' = "loop"
    /\ UNCHANGED <<listing, rl_left, batch_size, cursor, resp, delay, err, yielded, calls>>
    /\ UNCHANGED hvars
    /\ UNCHANGED svars
    /\ UNCHANGED ovars

\* lines 90-92: the page is exhausted; read the next cursor, stop if there is none
EndOfPage ==
    /\ pc = "loop"
    /\ PageExhausted(resp, idx)
    /\ cursor' = NextCursor(resp)
    /\ pc' = IF Truthy(NextCursor(resp)) THEN "call" ELSE "done"
    /\ UNCHANGED <<listing, rl_left, batch_size, resp, idx, delay, err, yielded, calls>>
    /\ UNCHANGED hvars
    /\ UNCHANGED svars
    /\ UNCHANGED ovars

(***************************************************************************)
(* Two fetch_all_users generators, each with its own client and service.   *)
(* Everything a generator works on is local to its frame (batch_size,      *)
(* cursor, resp, the for loop's position, delay); the variables of the     *)
(* generator above are those of the stream that runs, and a switch to the  *)
(* other stream puts them aside and brings the other stream's back.        *)
(***************************************************************************)
\* the frame of the running generator, with its service and its log
Frame ==
    [listing |-> listing, rl_left |-> rl_left, batch_size |-> batch_size, pc |-> pc,
     cursor |-> cursor, resp |-> resp, idx |-> idx, delay |-> delay, err |-> err,
     yielded |-> yielded, calls |-> calls]

\* a generator that has been created and not started, over the listing l
NewFrame(l, size, limits) ==
    [listing |-> l, rl_left |-> limits, batch_size |-> size, pc |-> "created",
     cursor |-> PyNone, resp |-> EmptyDict, idx |-> 0, delay |-> 0, err |-> PyNone,
     yielded |-> <<>>, calls |-> <<>>]

\* no second stream
NoFrame == [pc |-> "idle"]

\* a cursor kept in one place for every generator, not in the frame
FrameCursorShared(frame, running) == running

\* line 82: cursor is a local variable of the generator: the cursor a stream
\* finds when it runs again is the one of its own frame, whatever the stream
\* that ran in between (its cursor is running) did
FrameCursor(frame, running) == frame.cursor

\* the consumer turns to the other stream
Switch ==
    /\ other # NoFrame
    /\ stream' = 3 - stream
    /\ other' = Frame
    /\ listing' = other.listing
    /\ rl_left' = other.rl_left
    /\ batch_size' = other.batch_size
    /\ pc' = other.pc
    /\ cursor' = FrameCursor(other, cursor)
    /\ resp' = other.resp
    /\ idx' = other.idx
    /\ delay' = other.delay
    /\ err' = other.err
    /\ yielded' = other.yielded
    /\ calls' = other.calls
    /\ UNCHANGED hvars
    /\ UNCHANGED ovars

(***************************************************************************)
(* users_map_saml_users_no_api.py: load_and_normalize and map_and_output.  *)
(* A DataFrame is the sequence of its rows, a row a record of its cells;   *)
(* every cell of the model is a string.                                    *)
(***************************************************************************)
\* rows in one CSV file: 0..MaxRows
MaxRows == 2

\* pandas' missing value in a column of strings: what read_csv gives for an
\* empty cell and what a left merge gives a row without a match
NaN == <<"NaN">>

\* the logins as the CSV files spell them
RawLogins == {<<"a","l">>, <<"A","l"," ">>, <<" ","b","o">>}

\* the SAML CSVs of the model: a login and a name_id that tells the rows apart
SamlCsvs ==
    UNION {{[i \in 1..n |-> [login |-> f[i], name_id |-> <<"n", Digits[i + 1]>>]] :
              f \in [1..n -> RawLogins]} : n \in 0..MaxRows}

\* the users CSVs of the model: login first, then the email, which tells the
\* rows apart when the row has one and is missing when its cell is empty
UsersCsvs ==
    UNION {{[i \in 1..n |->
                [login |-> f[i][1],
                 email |-> IF f[i][2] THEN <<" ", "U", Digits[i + 1]>> ELSE NaN]] :
              f \in [1..n -> RawLogins \X BOOLEAN]} : n \in 0..MaxRows}

\* .astype(str) on one cell.  What it does with a missing value depends on the
\* installed pandas: before 3.0 it gives the string 'nan', since 3.0 (the str
\* dtype) it keeps the value missing.
AsTypeStr(cell, keepsNa) ==
    IF cell = NaN /\ ~keepsNa THEN <<"n","a","n">> ELSE cell

\* lines 79-81: .astype(str).str.strip().str.lower(); the .str methods leave a
\* missing value missing
Normalize(cell, keepsNa) ==
    IF AsTypeStr(cell, keepsNa) = NaN THEN NaN
    ELSE Lower[Strip[AsTypeStr(cell, keepsNa)]]

\* the rows of right whose login is the login of the row l
Matches(l, right) == SelectSeq(right, LAMBDA r : r.login = l.login)

\* lines 90-94: pd.merge(left, right, how='left', on='login'): the rows of
\* left in their order, each once per matching row of right (in the order of
\* right), and once with missing values when no row of right matches
Merge(left, right) ==
    LET f[n \in 0..Len(left)] ==
            IF n = 0 THEN <<>>
            ELSE f[n - 1] \o
                 (IF Matches(left[n], right) = <<>>
                  THEN <<[login |-> left[n].login, name_id |-> left[n].name_id,
                          github_email |-> NaN]>>
                  ELSE [j \in 1..Len(Matches(left[n], right)) |->
                          [login |-> left[n].login, name_id |-> left[n].name_id,
                           github_email |-> Matches(left[n], right)[j].github_email]])
    IN  f[Len(left)]

\* load_and_normalize(saml_path, users_path)
LoadAndNormalize ==
    /\ rpc = "start"
    /\ \E keepsNa \in BOOLEAN :
        /\ saml_df' = [i \in DOMAIN saml_csv |->
                          [login |-> Normalize(saml_csv[i].login, keepsNa),
                           name_id |-> saml_csv[i].name_id]]
        /\ users_df' = [i \in DOMAIN users_csv |->
                          [login |-> Normalize(users_csv[i].login, keepsNa),
                           github_email |-> Normalize(users_csv[i].email, keepsNa)]]
    /\ rpc' = "loaded"
    /\ UNCHANGED <<saml_csv, users_csv, merged, unmatched_saml, unmatched_github, files>>
    /\ UNCHANGED <<hvars, fvars, svars, mvars>>

\* map_and_output(saml_df, users_df, prefix)
MapAndOutput ==
    /\ rpc = "loaded"
    /\ merged' = Merge(saml_df, users_df)
    /\ unmatched_saml' = SelectSeq(merged', LAMBDA row : row.github_email = NaN)
    /\ unmatched_github' =
          SelectSeq(users_df, LAMBDA row : \A i \in DOMAIN saml_df : saml_df[i].login # row.login)
    /\ files' = {"_merged.csv"}
                \cup (IF unmatched_saml' # <<>> THEN {"_unmatched_saml.csv"} ELSE {})
                \cup (IF unmatched_github' # <<>> THEN {"_unmatched_github.csv"} ELSE {})
    /\ rpc' = "done"
    /\ UNCHANGED <<saml_csv, users_csv, saml_df, users_df>>
    /\ UNCHANGED <<hvars, fvars, svars, mvars>>

(***************************************************************************)
(* users_dump_slack.py: main's loop over the users that fetch_all_users     *)
(* yields.  A user object is a dict with an id and, each present or not,   *)
(* the booleans is_bot, is_app_user and deleted.                           *)
(***************************************************************************)
\* users that one run of main is given: 0..MaxUsers
MaxUsers == 2

UserIds == <<"U1", "U2", "U3", "U4", "U5">>

FlagKeys == {"is_bot", "is_app_user", "deleted"}

\* the user objects the generator may yield as the n-th user
UserObjects(n) ==
    UNION {{[id |-> UserIds[n]] @@ flags : flags \in [present -> BOOLEAN]} :
           present \in SUBSET FlagKeys}

\* user.get(key, dflt), read as a condition
Flag(user, key, dflt) == IF key \in DOMAIN user THEN user[key] ELSE dflt

\* a filter that does not look at is_app_user
SkipsButAppUsers(user, bots, del) ==
    \/ ~bots /\ Flag(user, "is_bot", FALSE)
    \/ ~del /\ Flag(user, "deleted", FALSE)

\* lines 141-144: the two continue statements
Skips(user, bots, del) ==
    \/ ~bots /\ (Flag(user, "is_bot", FALSE) \/ Flag(user, "is_app_user", FALSE))
    \/ ~del /\ Flag(user, "deleted", FALSE)

\* a cell as csv.DictWriter writes it: str() of the value
CsvCell(user, field) ==
    IF field \notin DOMAIN user THEN ""
    ELSE IF field = "id" THEN user[field]
    ELSE IF user[field] THEN "True" ELSE "False"

\* lines 146-153, for the fields id, deleted, is_bot and is_app_user
Row(user) == [field \in {"id", "deleted", "is_bot", "is_app_user"} |-> CsvCell(user, field)]

\* lines 140-163: one iteration of the for loop, for the next user yielded
ProcessUser ==
    /\ mpc = "loop"
    /\ Len(users) < MaxUsers
    /\ \E user \in UserObjects(Len(users) + 1) :
        /\ users' = Append(users, user)
        /\ IF Skips(user, include_bots, include_deleted)
           THEN UNCHANGED <<rows, active, deactivated, bot, app>>
           ELSE /\ rows' = Append(rows, Row(user))
                /\ IF Flag(user, "deleted", FALSE)
                   THEN deactivated' = deactivated + 1 /\ UNCHANGED active
                   ELSE active' = active + 1 /\ UNCHANGED deactivated
                /\ bot' = IF Flag(user, "is_bot", TRUE) THEN bot + 1 ELSE bot
                /\ app' = IF Flag(user, "is_app_user", TRUE) THEN app + 1 ELSE app
    /\ UNCHANGED <<include_bots, include_deleted, mpc, report>>
    /\ UNCHANGED <<hvars, fvars, svars, rvars>>

\* lines 169-173: the generator is exhausted; total and the log line
Report ==
    /\ mpc = "loop"
    /\ report' = [total |-> active + deactivated, active |-> active,
                  deactivated |-> deactivated, bot |-> bot, app |-> app]
    /\ mpc' = "done"
    /\ UNCHANGED <<include_bots, include_deleted, users, rows, active, deactivated,
                   bot, app>>
    /\ UNCHANGED <<hvars, fvars, svars, rvars>>

(***************************************************************************)
(* Specifications.                                                         *)
(***************************************************************************)
ReconcileIdle ==
    /\ saml_csv = <<>>
    /\ users_csv = <<>>
    /\ rpc = "idle"
    /\ saml_df = <<>>
    /\ users_df = <<>>
    /\ merged = <<>>
    /\ unmatched_saml = <<>>
    /\ unmatched_github = <<>>
    /\ files = {}

MainIdle ==
    /\ include_bots = FALSE
    /\ include_deleted = FALSE
    /\ mpc = "idle"
    /\ users = <<>>
    /\ rows = <<>>
    /\ active = 0
    /\ deactivated = 0
    /\ bot = 0
    /\ app = 0
    /\ report = NoCall

StreamsIdle ==
    /\ stream = 1
    /\ other = NoFrame

HandlerIdle ==
    /\ base_in = <<>>
    /\ token_in = "ghp_a"
    /\ hstate = "new"
    /\ self = Unassigned
    /\ ctor = NoCall
    /\ identity = NoCall
    /\ last = NoCall

FetchIdle ==
    /\ listing = <<>>
    /\ rl_left = 0
    /\ batch_size = DEFAULT_BATCH_SIZE
    /\ pc = "idle"
    /\ cursor = PyNone
    /\ resp = EmptyDict
    /\ idx = 0
    /\ delay = 0
    /\ err = PyNone
    /\ yielded = <<>>
    /\ calls = <<>>

HandlerInit ==
    /\ base_in \in BaseUrlInputs
    /\ token_in \in Tokens
    /\ hstate = "new"
    /\ self = Unassigned
    /\ ctor = NoCall
    /\ identity = NoCall
    /\ last = NoCall
    /\ FetchIdle
    /\ StreamsIdle
    /\ ReconcileIdle
    /\ MainIdle

HandlerNext == Construct \/ MakeApiRequest \/ MakeGraphqlRequest \/ GetUsername

\* one handler: constructed once, then called any number of times
SpecHandler == HandlerInit /\ [][HandlerNext]_vars

FetchInit ==
    /\ listing \in Listings
    /\ rl_left = MaxRateLimits
    /\ batch_size \in BatchSizes
    /\ pc = "created"
    /\ cursor = PyNone
    /\ resp = EmptyDict
    /\ idx = 0
    /\ delay = 0
    /\ err = PyNone
    /\ yielded = <<>>
    /\ calls = <<>>
    /\ HandlerIdle
    /\ StreamsIdle
    /\ ReconcileIdle
    /\ MainIdle

FetchNext == FetchStart \/ UsersList \/ Sleep \/ YieldMember \/ Resume \/ EndOfPage

\* one fetch_all_users generator, driven by a consumer that may stop pulling
SpecFetch == FetchInit /\ [][FetchNext]_vars

\* a users_list call that the service answers with the page asked for
UsersListOk == UsersList /\ calls'[Len(calls')].result = "ok"

PaginateNext == FetchStart \/ UsersListOk \/ YieldMember \/ Resume \/ EndOfPage

\* one fetch_all_users generator over a service that never fails, driven to
\* exhaustion: main's for loop pulls until the generator returns
SpecPaginate == FetchInit /\ [][PaginateNext]_vars /\ WF_vars(PaginateNext)

\* a Retry-After header that is absent or gives a number of seconds
SecondsOrAbsent(headers) ==
    "Retry-After" \in DOMAIN headers => PyInt(headers["Retry-After"]).kind = "return"

\* a users_list call that the service answers with the page asked for or with
\* a rate-limit failure whose Retry-After header, if any, gives seconds
UsersListOkOrRateLimited ==
    /\ UsersList
    /\ calls'[Len(calls')].result \in {"ok", "ratelimited"}
    /\ calls'[Len(calls')].result = "ratelimited" =>
          SecondsOrAbsent(calls'[Len(calls')].headers)

RetryNext ==
    FetchStart \/ UsersListOkOrRateLimited \/ Sleep \/ YieldMember \/ Resume \/ EndOfPage

\* one fetch_all_users generator over a service that rate-limits up to
\* MaxRateLimits times, anywhere, and otherwise answers; driven to exhaustion
SpecRetry == FetchInit /\ [][RetryNext]_vars /\ WF_vars(RetryNext)

\* rate-limit failures one stream's service may place
StreamRateLimits == 1

\* the listings of the two streams: one or two pages of at most one member
StreamListings == {l \in Listings : Len(l) <= 2 /\ \A p \in DOMAIN l : Len(l[p]) <= 1}

StreamsInit ==
    /\ listing \in StreamListings
    /\ rl_left = StreamRateLimits
    /\ batch_size = DEFAULT_BATCH_SIZE
    /\ pc = "created"
    /\ cursor = PyNone
    /\ resp = EmptyDict
    /\ idx = 0
    /\ delay = 0
    /\ err = PyNone
    /\ yielded = <<>>
    /\ calls = <<>>
    /\ stream = 1
    /\ other \in {NewFrame(l, MaxPageSize, StreamRateLimits) : l \in StreamListings}
    /\ HandlerIdle
    /\ ReconcileIdle
    /\ MainIdle

\* a users_list call answered with a page that ends the listing, if it does,
\* with an empty cursor, with a rate-limit failure that carries no header, or
\* with an authentication failure
UsersListOfStream ==
    /\ UsersList
    /\ calls'[Len(calls')].result \in {"ok", "ratelimited", "invalid_auth"}
    /\ calls'[Len(calls')].result = "ok" =>
          /\ "response_metadata" \in DOMAIN calls'[Len(calls')].response
          /\ Get(calls'[Len(calls')].response["response_metadata"],
                 "next_cursor", PyNone) # PyNone
    /\ calls'[Len(calls')].result = "ratelimited" =>
          "Retry-After" \notin DOMAIN calls'[Len(calls')].headers

StreamsNext ==
    \/ FetchStart \/ UsersListOfStream \/ Sleep \/ YieldMember \/ Resume \/ EndOfPage
    \/ Switch

\* two generators, each over its own service, their steps interleaved in any
\* order
SpecStreams == StreamsInit /\ [][StreamsNext]_vars

ReconcileInit ==
    /\ saml_csv \in SamlCsvs
    /\ users_csv \in UsersCsvs
    /\ rpc = "start"
    /\ saml_df = <<>>
    /\ users_df = <<>>
    /\ merged = <<>>
    /\ unmatched_saml = <<>>
    /\ unmatched_github = <<>>
    /\ files = {}
    /\ HandlerIdle
    /\ FetchIdle
    /\ StreamsIdle
    /\ MainIdle

ReconcileNext == LoadAndNormalize \/ MapAndOutput

\* one run of the reconciliation over two CSV files
SpecReconcile == ReconcileInit /\ [][ReconcileNext]_vars

MainInit ==
    /\ include_bots \in BOOLEAN
    /\ include_deleted \in BOOLEAN
    /\ mpc = "loop"
    /\ users = <<>>
    /\ rows = <<>>
    /\ active = 0
    /\ deactivated = 0
    /\ bot = 0
    /\ app = 0
    /\ report = NoCall
    /\ HandlerIdle
    /\ FetchIdle
    /\ StreamsIdle
    /\ ReconcileIdle

MainNext == ProcessUser \/ Report

\* one run of main over the users that the generator yields
SpecMain == MainInit /\ [][MainNext]_vars

(***************************************************************************)
(* Properties of GitHubAPIHandler, checked under SpecHandler.              *)
(***************************************************************************)
\* a reply with a status that is no HTTP error: below 400
SuccessStatus(reply) == "status" \in DOMAIN reply /\ reply.status < 400

\* the body is a JSON document
Decodes(reply) == ResponseJson(reply.content).kind = "return"

\* the GET <api_url>/user of __init__ succeeded and returned a non-empty login
IdentitySucceeded ==
    /\ identity # NoCall
    /\ identity.op = "GET"
    /\ identity.url = self.api_url \o USER
    /\ SuccessStatus(identity.reply)
    /\ Decodes(identity.reply)
    /\ "login" \in DOMAIN ResponseJson(identity.reply.content).value
    /\ ResponseJson(identity.reply.content).value["login"] \notin {PyNone, ""}

\* C4: a handler exists, and a request is made on it, only after the GET
\* <api_url>/user of its construction succeeded with a non-empty login; when
\* that call fails or yields no login, construction raises, no handler exists
\* and no call was made on one.
C4_UsableOnlyWhenValidated ==
    /\ hstate = "ready" => IdentitySucceeded
    /\ last # NoCall => hstate = "ready" /\ IdentitySucceeded
    /\ (identity # NoCall /\ ~IdentitySucceeded) =>
          hstate = "failed" /\ ctor.kind = "raise" /\ last = NoCall

\* C4 witness: a GraphQL request made on a handler whose identity call succeeded
C4_Witness ==
    /\ last.op = "make_graphql_request"
    /\ identity # NoCall
    /\ identity.reply = Reply(200, BODY_LOGIN)

\* the reply to the latest GraphQL request is a 2xx whose envelope carries a
\* non-empty top-level errors list
GraphqlErrorsReply ==
    /\ last.op = "make_graphql_request"
    /\ SuccessStatus(last.reply)
    /\ Decodes(last.reply)
    /\ "errors" \in DOMAIN ResponseJson(last.reply.content).value
    /\ Len(ResponseJson(last.reply.content).value["errors"]) > 0

\* C5: a GraphQL request answered with a success status and a non-empty
\* errors list raises the query error (ValueError) and returns nothing, not
\* even the data the envelope carries.
C5_ErrorsRaiseQueryError ==
    GraphqlErrorsReply =>
        /\ last.outcome.kind = "raise"
        /\ last.outcome.error = "ValueError"
        /\ last.outcome.message.cause = ResponseJson(last.reply.content).value["errors"]

\* C5 witness: the envelope carried errors together with partial data
C5_Witness ==
    /\ last.op = "make_graphql_request"
    /\ last.reply = Reply(200, BODY_ERRORS_DATA)
    /\ last.outcome.kind = "raise"

\* C6: _normalize_url is idempotent: normalising the base URL that __init__
\* stored (itself a result of _normalize_url) gives it back.
C6_NormalizeIdempotent ==
    hstate # "new" => _normalize_url(self.base_url) = self.base_url

\* host strings that name github.com: no scheme, http:// or https://, either
\* letter case, with or without a port or a path, any trailing slashes
GithubComInputs ==
    {s \o h \o Slashes(k) :
        s \in {<<>>, <<"h","t","t","p",":","/","/">>, <<"h","t","t","p","s",":","/","/">>},
        h \in {<<"g","i","t","h","u","b",".","c","o","m">>,
               <<"G","i","t","H","u","b",".","c","o","m">>,
               <<"g","i","t","h","u","b",".","c","o","m",":","8">>,
               <<"g","i","t","h","u","b",".","c","o","m","/","x">>},
        k \in 0..MaxSlashes}

\* C7: for a host string that names github.com the resolved REST root is
\* https://api.github.com and the GraphQL root https://api.github.com/graphql.
C7_PublicCloudRoots ==
    (hstate # "new" /\ base_in \in GithubComInputs) =>
        /\ self.api_url = <<"h","t","t","p","s",":","/","/","a","p","i",".",
                            "g","i","t","h","u","b",".","c","o","m">>
        /\ self.graphql_url = <<"h","t","t","p","s",":","/","/","a","p","i",".",
                                "g","i","t","h","u","b",".","c","o","m",
                                "/","g","r","a","p","h","q","l">>

\* C7 witness: http://github.com with the most trailing slashes, constructed
C7_Witness ==
    /\ hstate = "ready"
    /\ base_in = <<"h","t","t","p",":","/","/","g","i","t","h","u","b",".","c","o","m">>
                 \o Slashes(MaxSlashes)

\* C8: for a host string whose hostname is not github.com the REST root is
\* Normalize(input) + "/api/v3" and the GraphQL root Normalize(input) +
\* "/api/graphql", for every input.
C8_SelfHostedRoots ==
    (hstate # "new" /\ Hostname[_normalize_url(base_in)] # GITHUB_COM) =>
        /\ self.api_url = _normalize_url(base_in) \o <<"/","a","p","i","/","v","3">>
        /\ self.graphql_url =
              _normalize_url(base_in) \o <<"/","a","p","i","/","g","r","a","p","h","q","l">>

\* the reply to the latest GraphQL request is a 2xx whose envelope has no
\* errors list or an empty one
GraphqlCleanReply ==
    /\ last.op = "make_graphql_request"
    /\ SuccessStatus(last.reply)
    /\ Decodes(last.reply)
    /\ "errors" \in DOMAIN ResponseJson(last.reply.content).value =>
          Len(ResponseJson(last.reply.content).value["errors"]) = 0

\* C9: a GraphQL request answered with a success status and no errors, or an
\* empty errors list, returns the envelope's data payload.
C9_ReturnsData ==
    GraphqlCleanReply =>
        /\ last.outcome.kind = "return"
        /\ "data" \in DOMAIN ResponseJson(last.reply.content).value =>
              last.outcome.value = ResponseJson(last.reply.content).value["data"]

\* a failed REST call raises the request error with the underlying exception
RestRaisesRequestError ==
    /\ last.outcome.kind = "raise"
    /\ last.outcome.error = "RequestException"
    /\ last.outcome.message.prefix = "REST API request failed"
    /\ last.outcome.message.cause =
          (IF "net" \in DOMAIN last.reply THEN [exc |-> last.reply.net]
           ELSE [exc |-> "HTTPError", status |-> last.reply.status])

\* a successful REST call returns the decoded body, {} for an empty body
RestReturnsBody ==
    /\ last.outcome.kind = "return"
    /\ last.outcome.value =
          (IF last.reply.content = "" THEN EmptyDict
           ELSE ResponseJson(last.reply.content).value)

\* C10 as stated: every success status returns the decoded body (or {}), and
\* every network failure or non-success status raises the request error.
C10_TwoOutcomes ==
    last.op = "make_api_request" =>
        IF SuccessStatus(last.reply) THEN RestReturnsBody ELSE RestRaisesRequestError

\* C10 amended: a success status (below 400) whose body is empty or decodes
\* returns the decoded body (or {}); a network failure or an error status
\* raises the request error with the underlying exception; a success status
\* whose body does not decode raises too (the request error wrapping the
\* decode error, or the decode error itself); a value is returned for a
\* success status only.
C10_OutcomesWithDecodeFailure ==
    last.op = "make_api_request" =>
        /\ (SuccessStatus(last.reply) /\ (last.reply.content = "" \/ Decodes(last.reply)))
              => RestReturnsBody
        /\ ~SuccessStatus(last.reply) => RestRaisesRequestError
        /\ (SuccessStatus(last.reply) /\ last.reply.content # "" /\ ~Decodes(last.reply)) =>
              /\ last.outcome.kind = "raise"
              /\ \/ last.outcome.error = "JSONDecodeError"
                 \/ /\ last.outcome.error = "RequestException"
                    /\ last.outcome.message.cause = [exc |-> "JSONDecodeError"]
        /\ last.outcome.kind = "return" => SuccessStatus(last.reply)

\* C10 witness: a 200 whose body is not JSON, which raised
C10_Witness ==
    /\ last.op = "make_api_request"
    /\ last.reply = Reply(200, BODY_HTML)
    /\ last.outcome.kind = "raise"

\* the identity call of __init__ failed at the transport level
IdentityTransportFailure == identity # NoCall /\ "net" \in DOMAIN identity.reply

\* the identity call of __init__ was answered with an error status
IdentityErrorStatus ==
    /\ identity # NoCall
    /\ "status" \in DOMAIN identity.reply
    /\ ~SuccessStatus(identity.reply)

\* the identity call of __init__ was answered with a success status and a JSON
\* object that has no login, or a null or empty one
IdentityLacksLogin ==
    /\ identity # NoCall
    /\ SuccessStatus(identity.reply)
    /\ Decodes(identity.reply)
    /\ Get(ResponseJson(identity.reply.content).value, "login", PyNone) \in {PyNone, ""}

\* C11 as stated: identity resolution fails with one and the same error kind in
\* its three failure cases: whenever the call fails at the transport level, is
\* answered with an error status, or is answered without a non-empty login,
\* construction raises the kind of error that a transport failure raises.
C11_OneErrorKind ==
    (IdentityTransportFailure \/ IdentityErrorStatus \/ IdentityLacksLogin) =>
        /\ hstate = "failed"
        /\ ctor.kind = "raise"
        /\ ctor.error = "RequestException"

\* C11 amended: construction raises in each of the three failure cases, with
\* two kinds of error: a transport failure and an error status raise the
\* request error "Failed to fetch user data" carrying the underlying exception,
\* a response without a non-empty login raises ValueError.
C11_TwoErrorKinds ==
    /\ (IdentityTransportFailure \/ IdentityErrorStatus) =>
          /\ hstate = "failed"
          /\ ctor.kind = "raise"
          /\ ctor.error = "RequestException"
          /\ ctor.message.prefix = "Failed to fetch user data"
          /\ ctor.message.cause =
                (IF "net" \in DOMAIN identity.reply THEN [exc |-> identity.reply.net]
                 ELSE [exc |-> "HTTPError", status |-> identity.reply.status])
    /\ IdentityLacksLogin =>
          /\ hstate = "failed"
          /\ ctor.kind = "raise"
          /\ ctor.error = "ValueError"

\* C11 witness: construction answered with a 200 and a JSON object without a
\* login, which raised ValueError
C11_Witness ==
    /\ identity # NoCall
    /\ identity.reply = Reply(200, BODY_OBJECT)
    /\ hstate = "failed"
    /\ ctor.kind = "raise"
    /\ ctor.error = "ValueError"

\* the attributes of a handler constructed from base_in and token_in whose
\* identity call returned the login it returned
AsConstructed ==
    [base_url |-> InitUrls[base_in].base_url,
     token |-> token_in,
     api_url |-> InitUrls[base_in].api_url.value,
     graphql_url |-> InitUrls[base_in].graphql_url.value,
     headers |-> [Authorization |-> <<"Bearer", token_in>>,
                  Accept |-> "application/vnd.github.v3+json"],
     graphql_headers |-> [Authorization |-> <<"Bearer", token_in>>,
                          Accept |-> "application/vnd.github+json"],
     username |-> ResponseJson(identity.reply.content).value["login"]]

\* C17: after construction the credential state does not change: whatever
\* calls are made on the handler and however they end, base_url, api_url,
\* graphql_url, token, username and both header sets stay as __init__ set
\* them, and every request is sent to the handler's root with the bearer token
\* given at construction.
C17_CredentialImmutable ==
    /\ [](hstate = "ready" => self = AsConstructed)
    /\ [](last.op \in {"make_api_request", "make_graphql_request"} =>
            /\ "Authorization" \in DOMAIN last.headers
            /\ last.headers["Authorization"] = <<"Bearer", token_in>>
            /\ last.headers = (IF last.op = "make_api_request" THEN self.headers
                               ELSE self.graphql_headers))
    /\ [][hstate = "ready" => (hstate' = "ready" /\ self' = self /\ token_in' = token_in)]_vars

\* C17 witness: a REST request on a handler built with the second token has
\* failed, and the handler is as it was constructed
C17_Witness ==
    /\ hstate = "ready"
    /\ token_in = "ghp_b"
    /\ last.op = "make_api_request"
    /\ last.outcome.kind = "raise"
    /\ self.token = "ghp_b"

(***************************************************************************)
(* Properties of fetch_all_users.                                          *)
(***************************************************************************)
\* the members of the first n pages of the listing, in page order
RECURSIVE FirstPages(_)
FirstPages(n) == IF n = 0 THEN <<>> ELSE FirstPages(n - 1) \o listing[n]

AllMembers == FirstPages(Len(listing))

\* the users_list calls answered with a page so far
OkCalls == {i \in DOMAIN calls : calls[i].op = "users_list" /\ calls[i].result = "ok"}

\* the members yielded when the generator stands where it stands, if it drops,
\* repeats and reorders nothing: every page before the current one, and the
\* members of the current page that the for loop has passed
ExpectedYield ==
    IF OkCalls = {} THEN <<>>
    ELSE LET n == Cardinality(OkCalls)
             passed == CASE pc = "loop" -> idx - 1
                         [] pc = "suspended" -> idx
                         [] OTHER -> Len(listing[n])
         IN  FirstPages(n - 1) \o SubSeq(listing[n], 1, passed)

\* C1 (state part): over a service that never fails the generator never
\* raises, has yielded exactly the members of the pages it has passed, in the
\* server's order, asks for each page once, and when it has returned it has
\* yielded the concatenation of all k pages.
PaginateInOrder ==
    /\ pc # "raised"
    /\ yielded = ExpectedYield
    /\ Cardinality(OkCalls) = Len(calls)
    /\ Len(calls) <= Len(listing)
    /\ pc = "done" =>
          /\ yielded = AllMembers
          /\ Len(calls) = Len(listing)

\* C1: over a simulated service with k pages of any sizes that never fails,
\* the generator yields the concatenation of the pages, in the order the
\* server returned them, and then terminates.
C1_PaginateAll == []PaginateInOrder /\ <>(pc = "done")

\* C1 witness: a listing of MaxPages pages with an empty first page and a full
\* second page, drained
C1_Witness ==
    /\ pc = "done"
    /\ Len(listing) = MaxPages
    /\ Len(listing[1]) = 0
    /\ Len(listing[2]) = MaxPageSize
    /\ yielded = AllMembers

\* a rate-limit failure whose Retry-After header declares seconds
DeclaresDelay(call) ==
    /\ call.op = "users_list"
    /\ call.result = "ratelimited"
    /\ "Retry-After" \in DOMAIN call.headers
    /\ call.headers["Retry-After"] = <<"3","0">>

\* a rate-limit failure that carries no Retry-After header
DeclaresNothing(call) ==
    /\ call.op = "users_list"
    /\ call.result = "ratelimited"
    /\ "Retry-After" \notin DOMAIN call.headers

\* call i was rate-limited and is followed by one sleep, then by the same request
RetriedAfterSleep(i) ==
    /\ i = Len(calls) => pc = "sleep"
    /\ i < Len(calls) => calls[i + 1].op = "sleep"
    /\ i + 1 = Len(calls) => pc = "call"
    /\ i + 1 < Len(calls) =>
          /\ calls[i + 2].op = "users_list"
          /\ calls[i + 2].cursor = calls[i].cursor
          /\ calls[i + 2].limit = calls[i].limit

\* C2: rate-limit failures are invisible to the consumer: whatever failures
\* were placed, the members yielded are those the service yields without rate
\* limiting (each page once, in order, all of them once the generator has
\* returned); every rate-limit failure that declares a delay of d seconds, or
\* none, is followed by exactly one sleep (of d seconds when declared) and then
\* by the same request; and nothing else makes the generator sleep.
C2_RateLimitInvisible ==
    /\ yielded = ExpectedYield
    /\ pc = "done" => yielded = AllMembers
    /\ \A i \in DOMAIN calls :
          /\ DeclaresDelay(calls[i]) =>
                /\ RetriedAfterSleep(i)
                /\ i = Len(calls) => delay = 30
                /\ i < Len(calls) => calls[i + 1].secs = 30
          /\ DeclaresNothing(calls[i]) => RetriedAfterSleep(i)
          /\ calls[i].op = "sleep" =>
                /\ i > 1
                /\ calls[i - 1].op = "users_list"
                /\ calls[i - 1].result = "ratelimited"

\* C2 witness: the request for page 2 was rate-limited with a declared delay,
\* and the listing was drained all the same
C2_Witness ==
    /\ pc = "done"
    /\ Len(listing) >= 2
    /\ Len(yielded) > Len(listing[1])
    /\ \E i \in DOMAIN calls : DeclaresDelay(calls[i]) /\ calls[i].cursor = CursorTokens[2]

\* a users_list call that failed with something else than a rate limit
TerminalFailure(call) ==
    /\ call.op = "users_list"
    /\ call.result \in {"invalid_auth", "malformed", "URLError"}

\* C3: a page request that fails with anything but the rate-limit condition is
\* not retried: it is the last call made (no sleep, no further request), the
\* error has left the generator, and the members yielded are exactly those of
\* the earlier successful pages, in order.
C3_OtherFailuresPropagate ==
    \A i \in DOMAIN calls :
        TerminalFailure(calls[i]) =>
            /\ i = Len(calls)
            /\ pc = "raised"
            /\ err = (CASE calls[i].result = "invalid_auth" -> "SlackApiError"
                        [] calls[i].result = "malformed" -> "TypeError"
                        [] calls[i].result = "URLError" -> "URLError")
            /\ yielded = FirstPages(Cardinality(OkCalls))

\* C3 witness: the request for the second page failed for good after the
\* first page had been yielded
C3_Witness ==
    /\ pc = "raised"
    /\ err = "SlackApiError"
    /\ Len(yielded) = MaxPageSize
    /\ Cardinality(OkCalls) = 1

\* call j is a users_list call that was answered with a page
IsOkCall(j) == calls[j].op = "users_list" /\ calls[j].result = "ok"

\* the users_list calls answered with a page before call i
OkCallsBefore(i) == {j \in 1..(i - 1) : IsOkCall(j)}

\* the latest users_list call answered with a page before call i
LastOkBefore(i) ==
    CHOOSE j \in 1..(i - 1) : IsOkCall(j) /\ \A k \in (j + 1)..(i - 1) : ~IsOkCall(k)

\* C12: every users_list request carries limit = batch_size; its cursor is
\* absent while no response has been received and is otherwise exactly the
\* next_cursor of the latest successful response; the request made after a
\* rate-limited failure (and its sleep) has the cursor and the limit of the
\* request that failed.
C12_RequestsFollowCursor ==
    \A i \in DOMAIN calls :
        calls[i].op = "users_list" =>
            /\ calls[i].limit = batch_size
            /\ OkCallsBefore(i) = {} => calls[i].cursor = PyNone
            /\ OkCallsBefore(i) # {} =>
                  LET latest == calls[LastOkBefore(i)].response
                  IN  /\ "response_metadata" \in DOMAIN latest
                      /\ "next_cursor" \in DOMAIN latest["response_metadata"]
                      /\ calls[i].cursor = latest["response_metadata"]["next_cursor"]
            /\ (i > 2 /\ calls[i - 1].op = "sleep") =>
                  /\ calls[i - 2].op = "users_list"
                  /\ calls[i - 2].result = "ratelimited"
                  /\ calls[i].cursor = calls[i - 2].cursor
                  /\ calls[i].limit = calls[i - 2].limit

\* C12 witness: with a batch size other than the default, the request for the
\* second page was rate-limited and then issued again
C12_Witness ==
    /\ batch_size = MaxPageSize
    /\ \E i \in DOMAIN calls :
          /\ i > 2
          /\ calls[i].op = "users_list"
          /\ calls[i].cursor = CursorTokens[2]
          /\ calls[i - 1].op = "sleep"
          /\ calls[i - 2].result = "ratelimited"

\* the users_list calls that were rate-limited so far
RateLimitedCalls ==
    {i \in DOMAIN calls : calls[i].op = "users_list" /\ calls[i].result = "ratelimited"}

\* C13: no retry ceiling and no page ceiling: over a service that rate-limits
\* finitely many times, wherever it likes, and eventually returns a page
\* without a next cursor, the generator driven to exhaustion never raises,
\* however many rate-limit failures came in a row, and eventually returns
\* having yielded every page.
C13_NoRetryCeiling ==
    /\ [](pc # "raised" /\ err = PyNone)
    /\ <>(pc = "done" /\ yielded = AllMembers /\ Cardinality(OkCalls) = Len(listing))

\* C13 witness: the longest listing was drained although the same request was
\* rate-limited MaxRateLimits times in a row
C13_Witness ==
    /\ pc = "done"
    /\ Len(listing) = MaxPages
    /\ Cardinality(RateLimitedCalls) = MaxRateLimits
    /\ \A i \in RateLimitedCalls : calls[i].cursor = CursorTokens[MaxPages]

\* the consumer holds the record that the generator has just yielded: it is
\* record idx of the latest page received, and every record before it has been
\* yielded
HoldsRecordOfLatestPage ==
    /\ OkCalls # {}
    /\ calls[Len(calls)].op = "users_list"
    /\ calls[Len(calls)].result = "ok"
    /\ idx \in 1..Len(listing[Cardinality(OkCalls)])
    /\ yielded = FirstPages(Cardinality(OkCalls) - 1)
                 \o SubSeq(listing[Cardinality(OkCalls)], 1, idx)

\* a step that issues a request: one more users_list call is logged
IssuesRequest ==
    /\ Len(calls') > Len(calls)
    /\ calls'[Len(calls')].op = "users_list"

\* C14: pagination is pull-driven and sequential.  While the consumer holds a
\* record it holds a record of the latest page received, so no page was asked
\* for ahead of the records before it; a step adds at most one call, and a
\* request is issued only while the generator runs on behalf of a pull and
\* after every record of every page received so far has been yielded; the
\* only step a suspended generator takes is the consumer's next pull, which
\* issues no request by itself, so a consumer that stops pulling sees no
\* further request.
C14_PullDrivenSequential ==
    /\ [](pc = "suspended" => HoldsRecordOfLatestPage)
    /\ [][/\ Len(calls') <= Len(calls) + 1
          /\ IssuesRequest =>
                /\ pc = "call"
                /\ yielded = FirstPages(Cardinality(OkCalls))
                /\ Cardinality(OkCalls) = PageOf(cursor) - 1
          /\ pc = "suspended" =>
                /\ pc' = "loop"
                /\ idx' = idx + 1
                /\ calls' = calls
                /\ yielded' = yielded]_vars

\* C14 witness: the consumer holds the first record of the second page, which
\* was asked for after the MaxPageSize records of the first page were yielded
C14_Witness ==
    /\ pc = "suspended"
    /\ Cardinality(OkCalls) = 2
    /\ Len(listing[1]) = MaxPageSize
    /\ Len(yielded) = MaxPageSize + 1

\* the seconds that the rate-limit failure of call i asks to wait: the value of
\* its Retry-After header, 1 when it has none
SecondsAsked(i) ==
    IF "Retry-After" \in DOMAIN calls[i].headers
    THEN DigitsValue[calls[i].headers["Retry-After"]]
    ELSE 1

\* C15: the suspension after a rate-limit failure lasts the seconds of its
\* Retry-After header when it carries one (a number of seconds), and 1 second
\* when it carries none; the generator sleeps nowhere else: each sleep follows
\* a rate-limit failure directly, and there is one sleep per such failure.
C15_SuspensionLength ==
    /\ \A i \in RateLimitedCalls :
          SecondsOrAbsent(calls[i].headers) =>
              /\ i = Len(calls) => (pc = "sleep" /\ delay = SecondsAsked(i))
              /\ i < Len(calls) =>
                    (calls[i + 1].op = "sleep" /\ calls[i + 1].secs = SecondsAsked(i))
    /\ \A i \in DOMAIN calls :
          calls[i].op = "sleep" => (i - 1) \in RateLimitedCalls
    /\ pc = "sleep" => Len(calls) \in RateLimitedCalls

\* C15 witness: one failure without a header was followed by a sleep of 1
\* second, another with Retry-After: 30 by a sleep of 30 seconds
C15_Witness ==
    \E i, j \in RateLimitedCalls :
        /\ i + 1 \in DOMAIN calls
        /\ j + 1 \in DOMAIN calls
        /\ "Retry-After" \notin DOMAIN calls[i].headers
        /\ calls[i + 1] = [op |-> "sleep", secs |-> 1]
        /\ "Retry-After" \in DOMAIN calls[j].headers
        /\ calls[j + 1] = [op |-> "sleep", secs |-> 30]

\* the response names no next page: it has no response_metadata, or no
\* next_cursor in it, or a null one, or an empty string
NamesNoNextPage(r) ==
    \/ "response_metadata" \notin DOMAIN r
    \/ "next_cursor" \notin DOMAIN r["response_metadata"]
    \/ r["response_metadata"]["next_cursor"] = PyNone
    \/ r["response_metadata"]["next_cursor"] = ""

\* the successful responses so far that name no next page
FinalResponses == {i \in OkCalls : NamesNoNextPage(calls[i].response)}

\* C19: a successful response with an empty-string next_cursor, a null one, no
\* next_cursor or no response_metadata is the final page: the request it
\* answers is the last call made (no further request, no sleep), the generator
\* does not raise, and it eventually returns having yielded every record of
\* that page after those of the pages before.
C19_FinalPageShapes ==
    /\ [](\A i \in FinalResponses :
            /\ i = Len(calls)
            /\ pc \in {"loop", "suspended", "done"}
            /\ pc = "done" =>
                  /\ Len(yielded) >= Len(calls[i].response["members"])
                  /\ SubSeq(yielded,
                            Len(yielded) - Len(calls[i].response["members"]) + 1,
                            Len(yielded)) = calls[i].response["members"]
                  /\ yielded = FirstPages(Cardinality(OkCalls)))
    /\ (FinalResponses # {}) ~> (pc = "done")
    /\ [](pc = "done" => FinalResponses # {})

\* C19 witness: the generator returned after a page of MaxPageSize records
\* whose response had no response_metadata
C19_Witness ==
    /\ pc = "done"
    /\ calls # <<>>
    /\ Len(calls) \in OkCalls
    /\ "response_metadata" \notin DOMAIN calls[Len(calls)].response
    /\ Len(calls[Len(calls)].response["members"]) = MaxPageSize

(***************************************************************************)
(* Properties of two interleaved streams, checked under SpecStreams.       *)
(***************************************************************************)
\* the cursor the running stream has when it is run alone: none before its
\* first page, then the cursor that came with the latest page it received
CursorWhenAlone ==
    IF OkCalls = {} THEN PyNone
    ELSE IF Cardinality(OkCalls) < Len(listing) THEN CursorTokens[Cardinality(OkCalls) + 1]
    ELSE ""

\* the running stream is where it would be had it run alone over its service:
\* it has yielded the records of its own pages, its requests carry its own
\* batch size and ask for its own pages one after the other, its cursor is its
\* own, and it has failed only if its own latest request failed for good
StreamAsWhenAlone ==
    /\ yielded = ExpectedYield
    /\ pc = "done" => yielded = AllMembers
    /\ \A i \in DOMAIN calls :
          calls[i].op = "users_list" =>
              /\ calls[i].limit = batch_size
              /\ calls[i].cursor =
                    (IF OkCallsBefore(i) = {} THEN PyNone
                     ELSE CursorTokens[Cardinality(OkCallsBefore(i)) + 1])
    /\ pc \in {"call", "sleep"} => cursor = CursorWhenAlone
    /\ pc = "done" => cursor = ""
    /\ pc = "raised" <=>
          (calls # <<>> /\ Get(calls[Len(calls)], "result", PyNone) = "invalid_auth")
    /\ pc = "sleep" <=> (Len(calls) \in RateLimitedCalls)

\* C16: two streams driven in any interleaving keep independent cursor and
\* retry state: the stream that runs is always where it would be had it run
\* alone (same records, same requests), a step of one stream, be it a page, a
\* rate-limit failure, a sleep or a terminal failure, leaves everything of the
\* other stream as it is, and a switch brings back exactly what was put aside.
C16_StreamsIndependent ==
    /\ []StreamAsWhenAlone
    /\ [][/\ stream' = stream => other' = other
          /\ stream' # stream => (other' = Frame /\ Frame' = other)]_vars

\* C16 witness: one stream has failed for good after a rate-limit failure of
\* its own, and the other has drained its two pages after one of its own
C16_Witness ==
    /\ pc = "done"
    /\ Len(listing) = 2
    /\ Len(yielded) = 2
    /\ RateLimitedCalls # {}
    /\ other.pc = "raised"
    /\ \E i \in DOMAIN other.calls : other.calls[i].result = "ratelimited"

(***************************************************************************)
(* Properties of the reconciliation, checked under SpecReconcile.          *)
(***************************************************************************)
\* the normalised login key of a login as a CSV file spells it: without the
\* surrounding blanks, in lower case
KeyOf(raw) ==
    CASE raw = <<"a","l">> -> <<"a","l">>
      [] raw = <<"A","l"," ">> -> <<"a","l">>
      [] raw = <<" ","b","o">> -> <<"b","o">>

SamlKeys == {KeyOf(saml_csv[i].login) : i \in DOMAIN saml_csv}

UsersKeys == {KeyOf(users_csv[i].login) : i \in DOMAIN users_csv}

\* the rows of the SAML CSV, told apart by their name_id, whose key occurs in
\* no row of the users CSV, in the order of the file
SamlRowsWithoutUser ==
    SelectSeq([i \in DOMAIN saml_csv |->
                  [login |-> KeyOf(saml_csv[i].login), name_id |-> saml_csv[i].name_id]],
              LAMBDA row : row.login \notin UsersKeys)

\* the rows of the users CSV whose key occurs in no row of the SAML CSV, in the
\* order of the file, each as load_and_normalize left it
UsersRowsWithoutSaml ==
    LET tagged == SelectSeq([i \in DOMAIN users_csv |-> [line |-> i, row |-> users_df[i]]],
                            LAMBDA t : KeyOf(users_csv[t.line].login) \notin SamlKeys)
    IN  [k \in DOMAIN tagged |-> tagged[k].row]

\* C18: the reconciliation reports unmatched rows in each direction on the
\* normalised login key: the unmatched-SAML output is exactly the SAML rows
\* whose key occurs in no user row, the unmatched-GitHub output is exactly the
\* user rows whose key occurs in no SAML row, and every SAML row appears at
\* least once in the merged output.
C18_UnmatchedBothWays ==
    rpc = "done" =>
        /\ [i \in DOMAIN unmatched_saml |->
               [login |-> unmatched_saml[i].login, name_id |-> unmatched_saml[i].name_id]]
           = SamlRowsWithoutUser
        /\ unmatched_github = UsersRowsWithoutSaml
        /\ \A i \in DOMAIN saml_csv :
              \E k \in DOMAIN merged :
                  /\ merged[k].name_id = saml_csv[i].name_id
                  /\ merged[k].login = KeyOf(saml_csv[i].login)
        /\ ("_unmatched_saml.csv" \in files) <=> (SamlRowsWithoutUser # <<>>)
        /\ ("_unmatched_github.csv" \in files) <=> (UsersRowsWithoutSaml # <<>>)

(***************************************************************************)
(* Properties of main's loop, checked under SpecMain.                      *)
(***************************************************************************)
\* the user has the flag: the key is there and is true
Has(user, key) == key \in DOMAIN user /\ user[key] = TRUE

\* the users that get a row: bots and app users only with --include-bots,
\* deleted users only with --include-deleted
GetsRow(user) ==
    /\ include_bots \/ (~Has(user, "is_bot") /\ ~Has(user, "is_app_user"))
    /\ include_deleted \/ ~Has(user, "deleted")

\* C20: for every sequence of users yielded, a row is written for a user
\* exactly when (include_bots, or the user is neither a bot nor an app user)
\* and (include_deleted, or the user is not deleted); the rows are in yield
\* order; after each user active + deactivated is the number of rows written,
\* and the total reported is the row count.
C20_RowsAndTotal ==
    /\ Len(rows) = Len(SelectSeq(users, GetsRow))
    /\ \A k \in DOMAIN rows : rows[k].id = SelectSeq(users, GetsRow)[k].id
    /\ active + deactivated = Len(rows)
    /\ mpc = "done" =>
          /\ report.total = Len(rows)
          /\ report.active + report.deactivated = report.total

\* C20 witness: without either option, an app user that is no bot and then a
\* plain user were yielded, only the second got a row, and 1 user was reported
C20_Witness ==
    /\ mpc = "done"
    /\ ~include_bots
    /\ ~include_deleted
    /\ Len(users) = 2
    /\ Has(users[1], "is_app_user")
    /\ "is_bot" \in DOMAIN users[1]
    /\ ~Has(users[1], "is_bot")
    /\ rows = <<[id |-> "U2", deleted |-> "False", is_bot |-> "False", is_app_user |-> ""]>>
    /\ report.total = 1

\* the written rows whose user has the flag: the cell reads True
RowsWith(key) == {k \in DOMAIN rows : rows[k][key] = "True"}

\* C21: after every user, bot is the number of written rows whose user has
\* is_bot true and app is the number of written rows whose user has
\* is_app_user true; so a run without --include-bots reports 0 bots and 0 app
\* users.
C21_BotAndAppCounts ==
    /\ bot = Cardinality(RowsWith("is_bot"))
    /\ app = Cardinality(RowsWith("is_app_user"))
    /\ (mpc = "done" /\ ~include_bots) => (report.bot = 0 /\ report.app = 0)

\* C21, the run that departs from it: without --include-bots one user with
\* neither an is_bot nor an is_app_user key was yielded and written, and the
\* report counts 1 bot and 1 app user
C21_AbsentKeysCounted ==
    /\ mpc = "done"
    /\ ~include_bots
    /\ Len(users) = 1
    /\ "is_bot" \notin DOMAIN users[1]
    /\ "is_app_user" \notin DOMAIN users[1]
    /\ Len(rows) = 1
    /\ rows[1].is_bot = ""
    /\ rows[1].is_app_user = ""
    /\ report.bot = 1
    /\ report.app = 1

=============================================================================
